---- MODULE Spec2Model ----
(***************************************************************************)
(* Model of the polling engine of the weather dashboard page component     *)
(* `Home` (src/unnamed/part_000): the hook state, the polling effect with  *)
(* its interval timer, fetchReadings, and the limit form (onChange and     *)
(* handleSubmit).                                                          *)
(*                                                                         *)
(* Conventions                                                             *)
(*  - a JavaScript string is a sequence of one-character strings;          *)
(*  - time is in milliseconds; an interval timer fires when the clock      *)
(*    reaches its due time, and the clock does not pass a due timer;       *)
(*  - `requests` holds the requests in flight, oldest first;               *)
(*  - the two awaits of fetchReadings (the response, then its body) are    *)
(*    one step: nothing is written between them;                           *)
(*  - a submit event reaches handleSubmit only while the submit button is  *)
(*    enabled (disabled={isFetching}); the re-render and the effect        *)
(*    re-subscription caused by a discrete event are flushed               *)
(*    synchronously by React, so they belong to the handler's step;        *)
(*  - history variables (never read by an action's guard or by the hook    *)
(*    state): the `stale` field of a request, lastBody, windowLimit,       *)
(*    windowStale;                                                         *)
(*  - a finite JavaScript number x is held as the integer x * Resolution,  *)
(*    so that fractions of one are numbers too; NaN, the infinities and    *)
(*    undefined are values of their own; a quotient is an exact fraction   *)
(*    in lowest terms;                                                     *)
(*  - `view` holds one render of a presentational part: the props it is    *)
(*    given and what it computes from them.  The polling engine never      *)
(*    reads it; SpecStats, SpecGauge and SpecTime draw the props from      *)
(*    bounded sets and render once.                                        *)
(***************************************************************************)
EXTENDS Integers, Sequences, FiniteSets

\* ---------------------------------------------------------------- bounds
MaxInFlight == 2      \* requests outstanding at the same time
MaxAdvances == 2      \* the clock stops after this many steps of half a period
MaxPayload == 2       \* readings in one response body
MaxSamples == 2       \* readings in a window given to the statistics
Resolution == 2       \* a number is a multiple of 1/Resolution
MaxTicks == 4         \* largest gauge value and range end, in 1/Resolution

\* ------------------------------------------------------ program constants
DEFAULT_LIMIT == 20
POLL_INTERVAL == 10000

NullError == "null"   \* useState<string | null>(null)
NullDate == -1        \* useState<Date | null>(null)
ValidationMessage == "Enter a valid number of readings."
FallbackMessage == "Could not fetch readings."

\* ------------------------------------------------------------ environment
\* readings the server holds, named by their _id
ReadingIds == 1..MaxPayload

IsInjective(s) == \A i, j \in DOMAIN s : s[i] = s[j] => i = j

RECURSIVE SeqsUpTo(_, _)
SeqsUpTo(S, n) ==
  IF n = 0 THEN {<<>>}
  ELSE LET shorter == SeqsUpTo(S, n - 1)
       IN shorter \cup {Append(s, x) : s \in {t \in shorter : Len(t) = n - 1}, x \in S}

\* the arrays of readings a response can carry
ReadingArrays == {t \in SeqsUpTo(ReadingIds, MaxPayload) : IsInjective(t)}

\* A parsed JSON body: an array of readings in the server's order, or some
\* other JSON value (here an object wrapping a reading).  A server asked for
\* limit=n sends at most n readings.
ArrayBodies(n) ==
  {[isArray |-> TRUE, items |-> s] : s \in {t \in ReadingArrays : Len(t) <= n}}
NonArrayBodies == {[isArray |-> FALSE, items |-> <<1>>]}
Bodies(n) == ArrayBodies(n) \cup NonArrayBodies
NoBody == [isArray |-> TRUE, items |-> <<>>]

\* What a rejected await throws: an Error with the runtime's message, or a
\* value that is not an Error.
Rejections ==
  {[isError |-> TRUE, message |-> "Failed to fetch"],
   [isError |-> FALSE, message |-> ""]}
ParseFailures ==
  {[isError |-> TRUE, message |-> "Unexpected token < in JSON"]}
StatusCodes == {200, 500}

\* Text the user can leave in the limit input.
InputStrings ==
  { <<"a", "b", "c">>, <<"0">>, <<"-", "3">>, <<"1">> }

\* ------------------------------------------------------------ conversions
Digits == <<"0", "1", "2", "3", "4", "5", "6", "7", "8", "9">>
IsDigit(c) == \E i \in 1..10 : Digits[i] = c
DigitValue(c) == (CHOOSE i \in 1..10 : Digits[i] = c) - 1
IsSpace(c) == c = " "

RECURSIVE SkipSpaces(_)
SkipSpaces(s) ==
  IF s # <<>> /\ IsSpace(Head(s)) THEN SkipSpaces(Tail(s)) ELSE s

\* value of the longest prefix of digits, and how many digits it has
RECURSIVE DigitPrefix(_, _, _)
DigitPrefix(s, acc, n) ==
  IF s # <<>> /\ IsDigit(Head(s))
  THEN DigitPrefix(Tail(s), acc * 10 + DigitValue(Head(s)), n + 1)
  ELSE [value |-> acc, count |-> n]

\* Number.parseInt(s, 10)
ParseInt(s) ==
  LET t == SkipSpaces(s)
      neg == t # <<>> /\ Head(t) = "-"
      u == IF t # <<>> /\ Head(t) \in {"-", "+"} THEN Tail(t) ELSE t
      d == DigitPrefix(u, 0, 0)
  IN IF d.count = 0 THEN [isNaN |-> TRUE, value |-> 0]
     ELSE [isNaN |-> FALSE, value |-> IF neg THEN 0 - d.value ELSE d.value]

\* Number.isFinite on a parseInt result (Infinity needs > 300 digits)
IsFinite(p) == ~p.isNaN

\* String(n) for a non-negative integer
RECURSIVE NumberToString(_)
NumberToString(n) ==
  IF n < 10 THEN <<Digits[n + 1]>>
  ELSE Append(NumberToString(n \div 10), Digits[(n % 10) + 1])

\* ------------------------------------------------------------------ state
VARIABLES
  readings,      \* useState<Reading[]>([])
  limit,         \* useState(DEFAULT_LIMIT)
  limitInput,    \* useState(String(DEFAULT_LIMIT))
  lastUpdated,   \* useState<Date | null>(null)
  error,         \* useState<string | null>(null)
  isFetching,    \* useState(false)
  phase,         \* "created", "mounted", "unmounted"
  timers,        \* active interval timers of the runtime
  interval,      \* the handle captured by the effect's cleanup (0: none)
  now,           \* clock, ms
  requests,      \* requests in flight, oldest first
  lastBody,      \* history: parsed body of the latest successful response
  windowLimit,   \* history: limit carried by the request of that response
  windowStale,   \* history: a later-issued request had succeeded before it
  view           \* one render: [props, rendered, out]

vars == <<readings, limit, limitInput, lastUpdated, error, isFetching, phase,
          timers, interval, now, requests, lastBody, windowLimit, windowStale,
          view>>

\* the state of the page component and of its runtime
page == <<readings, limit, limitInput, lastUpdated, error, isFetching, phase,
          timers, interval, now, requests, lastBody, windowLimit, windowStale>>

history == <<lastBody, windowLimit, windowStale>>

\* nothing rendered yet
NoView == [props |-> <<>>, rendered |-> FALSE, out |-> <<>>]

PageInit ==
  /\ readings = <<>>
  /\ limit = DEFAULT_LIMIT
  /\ limitInput = NumberToString(DEFAULT_LIMIT)
  /\ lastUpdated = NullDate
  /\ error = NullError
  /\ isFetching = FALSE
  /\ phase = "created"
  /\ timers = {}
  /\ interval = 0
  /\ now = 0
  /\ requests = <<>>
  /\ lastBody = NoBody
  /\ windowLimit = 0
  /\ windowStale = FALSE

Init == PageInit /\ view = NoView

\* ---------------------------------------------------------- fetchReadings
\* the request fetchReadings(limitToUse) puts on the wire
NewRequest(limitToUse) ==
  [limitToUse |-> limitToUse, stale |-> FALSE]

\* requests in flight after fetchReadings(limitToUse) ran up to its await
Issue(inFlight, limitToUse) == Append(inFlight, NewRequest(limitToUse))

\* requests in flight once request r has settled; when it succeeded, the
\* requests issued before it are from then on stale
Settled(r, succeeded) ==
  [i \in 1..(Len(requests) - 1) |->
     IF i < r
     THEN [requests[i] EXCEPT !.stale = @ \/ succeeded]
     ELSE requests[i + 1]]

\* err instanceof Error ? err.message : "Could not fetch readings."
ErrorMessage(err) == IF err.isError THEN err.message ELSE FallbackMessage

\* `Failed to fetch readings (${response.status}).`
HttpMessage(status) ==
  CASE status = 500 -> "Failed to fetch readings (500)."
    [] OTHER -> "Failed to fetch readings."

ResponseOk(status) == status >= 200 /\ status <= 299

\* variant: the parsed body is stored whatever its shape
CoerceAnything(data) == data.items

\* Array.isArray(data) ? data : []
Coerce(data) == IF data.isArray THEN data.items ELSE <<>>

\* variant: a failure drops the window
FailClearsWindow(r, message) ==
  /\ error' = message
  /\ isFetching' = FALSE
  /\ readings' = <<>>
  /\ UNCHANGED lastUpdated

\* variant: the finally block stamps the time of every completion
FailStampsTime(r, message) ==
  /\ error' = message
  /\ isFetching' = FALSE
  /\ lastUpdated' = now
  /\ UNCHANGED readings

\* catch + finally
Fail(r, message) ==
  /\ error' = message
  /\ isFetching' = FALSE
  /\ UNCHANGED <<readings, lastUpdated>>

\* await fetch(...) rejects
FetchRejected(r) ==
  /\ r \in DOMAIN requests
  /\ UNCHANGED <<history, now, limit, limitInput, phase, timers, interval, view>>
  /\ requests' = Settled(r, FALSE)
  /\ \E err \in Rejections : Fail(r, ErrorMessage(err))

\* await fetch(...) resolves with !response.ok: throw new Error(...)
HttpFailed(r) ==
  /\ r \in DOMAIN requests
  /\ UNCHANGED <<history, now, limit, limitInput, phase, timers, interval, view>>
  /\ requests' = Settled(r, FALSE)
  /\ \E status \in StatusCodes :
       /\ ~ResponseOk(status)
       /\ Fail(r, ErrorMessage([isError |-> TRUE, message |-> HttpMessage(status)]))

\* response.ok, then await response.json() rejects
JsonRejected(r) ==
  /\ r \in DOMAIN requests
  /\ UNCHANGED <<history, now, limit, limitInput, phase, timers, interval, view>>
  /\ requests' = Settled(r, FALSE)
  /\ \E status \in StatusCodes, err \in ParseFailures :
       /\ ResponseOk(status)
       /\ Fail(r, ErrorMessage(err))

\* variant: the payload is appended to the window
SucceedAppends(r, data) ==
  /\ readings' = readings \o Coerce(data)
  /\ lastUpdated' = now
  /\ isFetching' = FALSE
  /\ UNCHANGED error

\* variant: a response overtaken by a later request's response is dropped
SucceedIfFresh(r, data) ==
  /\ IF requests[r].stale
     THEN UNCHANGED <<readings, lastUpdated>>
     ELSE readings' = Coerce(data) /\ lastUpdated' = now
  /\ isFetching' = FALSE
  /\ UNCHANGED error

\* variant: a success wipes the message on display
SucceedClearsError(r, data) ==
  /\ readings' = Coerce(data)
  /\ lastUpdated' = now
  /\ isFetching' = FALSE
  /\ error' = NullError

\* setReadings(...); setLastUpdated(new Date()); finally
Succeed(r, data) ==
  /\ readings' = Coerce(data)
  /\ lastUpdated' = now
  /\ isFetching' = FALSE
  /\ UNCHANGED error

\* response.ok, then await response.json() resolves with the parsed body
JsonResolved(r) ==
  /\ r \in DOMAIN requests
  /\ UNCHANGED <<limit, limitInput, phase, timers, interval, now, view>>
  /\ windowLimit' = requests[r].limitToUse
  /\ windowStale' = requests[r].stale
  /\ requests' = Settled(r, TRUE)
  /\ \E status \in StatusCodes, data \in Bodies(requests[r].limitToUse) :
       /\ ResponseOk(status)
       /\ lastBody' = data
       /\ Succeed(r, data)

\* ------------------------------------------------------------- the effect
\* the handle setInterval returns: one no active timer has
FreshHandle(ts) == CHOOSE h \in 1..(Cardinality(ts) + 1) : \A t \in ts : t.id # h

\* variant: the first tick is due at once
NewTimerDueNow(id, limitToUse) ==
  [id |-> id, limitToUse |-> limitToUse, period |-> POLL_INTERVAL,
   nextFire |-> now]

\* variant: the callback polls with the default limit
NewTimerDefaultLimit(id, limitToUse) ==
  [id |-> id, limitToUse |-> DEFAULT_LIMIT, period |-> POLL_INTERVAL,
   nextFire |-> now + POLL_INTERVAL]

NewTimer(id, limitToUse) ==
  [id |-> id, limitToUse |-> limitToUse, period |-> POLL_INTERVAL,
   nextFire |-> now + POLL_INTERVAL]

\* variant: the effect returns no cleanup
CleanupNothing(ts) == ts

\* return () => clearInterval(interval)
Cleanup(ts) == {t \in ts : t.id # interval}

\* variant: the effect only sets the interval and leaves the first poll to it
RunEffectTimerOnly(l, inFlight, ts) ==
  /\ requests' = inFlight
  /\ timers' = ts \cup {NewTimer(FreshHandle(ts), l)}
  /\ interval' = FreshHandle(ts)
  /\ UNCHANGED <<isFetching, error>>

\* body of the effect for the rendered limit l, after the previous cleanup:
\* fetchReadings(l); setInterval(() => fetchReadings(l), POLL_INTERVAL)
RunEffect(l, inFlight, ts) ==
  /\ requests' = Issue(inFlight, l)
  /\ timers' = ts \cup {NewTimer(FreshHandle(ts), l)}
  /\ interval' = FreshHandle(ts)
  /\ isFetching' = TRUE
  /\ error' = NullError

\* first render commits: the effect runs
Mount ==
  /\ phase = "created"
  /\ Len(requests) < MaxInFlight
  /\ phase' = "mounted"
  /\ RunEffect(limit, requests, timers)
  /\ UNCHANGED <<readings, limit, limitInput, lastUpdated, now, history, view>>

\* teardown: the effect's cleanup runs
Unmount ==
  /\ phase = "mounted"
  /\ phase' = "unmounted"
  /\ timers' = Cleanup(timers)
  /\ interval' = 0
  /\ UNCHANGED <<readings, limit, limitInput, lastUpdated, error, isFetching,
                 now, requests, history, view>>

\* variant: a one-shot timer (setTimeout) in place of the interval
TimerTickOneShot(t) ==
  /\ t \in timers
  /\ now = t.nextFire
  /\ Len(requests) < MaxInFlight
  /\ requests' = Issue(requests, t.limitToUse)
  /\ isFetching' = TRUE
  /\ error' = NullError
  /\ timers' = timers \ {t}
  /\ UNCHANGED <<readings, limit, limitInput, lastUpdated, phase, interval,
                 now, history, view>>

\* the interval callback: fetchReadings(limit) with the limit it closed over
TimerTick(t) ==
  /\ t \in timers
  /\ now = t.nextFire
  /\ Len(requests) < MaxInFlight
  /\ requests' = Issue(requests, t.limitToUse)
  /\ isFetching' = TRUE
  /\ error' = NullError
  /\ timers' = (timers \ {t}) \cup {[t EXCEPT !.nextFire = now + t.period]}
  /\ UNCHANGED <<readings, limit, limitInput, lastUpdated, phase, interval,
                 now, history, view>>

\* time passes, never beyond a due timer
TimeSteps == {POLL_INTERVAL \div 2}
Advance ==
  /\ phase # "created"
  /\ \E d \in TimeSteps :
       /\ now + d <= MaxAdvances * (POLL_INTERVAL \div 2)
       /\ \A t \in timers : now + d <= t.nextFire
       /\ now' = now + d
  /\ UNCHANGED <<readings, limit, limitInput, lastUpdated, error, isFetching,
                 phase, timers, interval, requests, history, view>>

\* ------------------------------------------------------------ limit form
\* onChange={(event) => setLimitInput(event.target.value)}
ChangeLimitInput(s) ==
  /\ phase = "mounted"
  /\ s \in InputStrings
  /\ s # limitInput
  /\ limitInput' = s
  /\ UNCHANGED <<readings, limit, lastUpdated, error, isFetching, phase, timers,
                 interval, now, requests, history, view>>

\* variant: zero passes the check (parsed < 0)
IsValidLimitOrZero(parsed) == IsFinite(parsed) /\ parsed.value >= 0

\* !Number.isFinite(parsed) || parsed <= 0, negated
IsValidLimit(parsed) == IsFinite(parsed) /\ parsed.value > 0

\* variant: the poll uses the limit of the current render
SubmitFetchStale(inFlight, parsed) == Issue(inFlight, limit)

\* variant: the handler leaves the poll to the effect
SubmitFetchNone(inFlight, parsed) == inFlight

\* void fetchReadings(parsed)
SubmitFetch(inFlight, parsed) == Issue(inFlight, parsed)

\* requests handleSubmit's step issues for a parsed limit
SubmitRequests(parsed) == IF parsed # limit THEN 2 ELSE 1

HandleSubmit ==
  /\ phase = "mounted"
  /\ ~isFetching                       \* submit button: disabled={isFetching}
  /\ UNCHANGED view
  /\ LET parsed == ParseInt(limitInput)
     IN IF ~IsValidLimit(parsed)
        THEN /\ error' = ValidationMessage
             /\ UNCHANGED <<readings, limit, limitInput, lastUpdated, isFetching,
                            phase, timers, interval, now, requests, history>>
        ELSE /\ Len(requests) + SubmitRequests(parsed.value) <= MaxInFlight
             /\ limit' = parsed.value
             /\ IF parsed.value # limit
                THEN \* setLimit re-renders; deps [fetchReadings, limit] changed:
                     \* cleanup of the old effect, then the effect again
                     RunEffect(parsed.value,
                               SubmitFetch(requests, parsed.value),
                               Cleanup(timers))
                ELSE /\ requests' = SubmitFetch(requests, parsed.value)
                     /\ isFetching' = TRUE
                     /\ error' = NullError
                     /\ UNCHANGED <<timers, interval>>
             /\ UNCHANGED <<readings, limitInput, lastUpdated, phase, now,
                            history>>

\* ---------------------------------------------------------------- numbers
\* values a numeric field of a reading, or a numeric prop, can hold
Undefined == [kind |-> "undefined", n |-> 0]
NaN == [kind |-> "NaN", n |-> 0]
PosInfinity == [kind |-> "Infinity", n |-> 0]
NegInfinity == [kind |-> "-Infinity", n |-> 0]
Num(n) == [kind |-> "finite", n |-> n]

\* Number.isFinite(value): a number that is neither NaN nor infinite
NumberIsFinite(v) ==
  v.kind \notin {"undefined", "NaN", "Infinity", "-Infinity"}

\* Number.isNaN(value)
NumberIsNaN(v) == v.kind = "NaN"

RECURSIVE GCD(_, _)
GCD(a, b) == IF b = 0 THEN a ELSE GCD(b, a % b)

\* a / b for b > 0, as a fraction in lowest terms
Quotient(a, b) ==
  LET g == GCD(IF a < 0 THEN 0 - a ELSE a, b)
  IN [num |-> a \div g, den |-> b \div g]

\* ------------------------------------------------------------- statistics
NullStats ==
  [isNull |-> TRUE, min |-> 0, max |-> 0, average |-> Quotient(0, 1),
   count |-> 0]

\* Math.min(...values), Math.max(...values) of finite numbers
MathMin(values) ==
  CHOOSE x \in {values[i] : i \in DOMAIN values} :
    \A i \in DOMAIN values : x <= values[i]
MathMax(values) ==
  CHOOSE x \in {values[i] : i \in DOMAIN values} :
    \A i \in DOMAIN values : x >= values[i]

\* values.reduce((sum, value) => sum + value, seed)
RECURSIVE Reduce(_, _)
Reduce(values, sum) ==
  IF values = <<>> THEN sum ELSE Reduce(Tail(values), sum + Head(values))

\* variant: the reduction is seeded with the first value
CollectStatsSeeded(values) ==
  IF Len(values) = 0 THEN NullStats
  ELSE [isNull |-> FALSE,
        min |-> MathMin(values),
        max |-> MathMax(values),
        average |-> Quotient(Reduce(values, values[1]), Len(values)),
        count |-> Len(values)]

\* collectStats(values), values: number[]
CollectStats(values) ==
  IF Len(values) = 0 THEN NullStats
  ELSE [isNull |-> FALSE,
        min |-> MathMin(values),
        max |-> MathMax(values),
        average |-> Quotient(Reduce(values, 0), Len(values)),
        count |-> Len(values)]

\* readings.map((item) => item[f])
Field(window, f) == [i \in DOMAIN window |-> window[i][f]]

\* .filter((value) => Number.isFinite(value)), as a number[]
FiniteValues(values) ==
  LET kept == SelectSeq(values, NumberIsFinite)
  IN [i \in DOMAIN kept |-> kept[i].n]

\* temperatureStats, humidityStats
FieldStats(window, f) == CollectStats(FiniteValues(Field(window, f)))

\* the two StatCards of a render over a window
RenderStats ==
  /\ ~view.rendered
  /\ view' = [view EXCEPT
                !.rendered = TRUE,
                !.out = [temperatureStats |->
                           FieldStats(view.props.window, "temperature"),
                         humidityStats |->
                           FieldStats(view.props.window, "humidity")]]
  /\ UNCHANGED page

\* ------------------------------------------------------------------ gauge
\* readings.at(0)?.[f]
LatestField(window, f) ==
  IF window = <<>> THEN Undefined ELSE window[1][f]

\* value ?? 0
SafeValue(value) == IF value.kind = "undefined" THEN Num(0) ELSE value

\* Math.max(max - min, 1)
Span(min, max) == IF max - min > Resolution THEN max - min ELSE Resolution

\* a percent that is a number: num / den with den > 0, or NaN
NaNPercent == [isNaN |-> TRUE, num |-> 0, den |-> 1]
Fraction(a, b) == [isNaN |-> FALSE, num |-> Quotient(a, b).num,
                   den |-> Quotient(a, b).den]

\* (safeValue - min) / span: a fraction of the span, or +-Infinity at the
\* ends of the clamp, or NaN
Ratio(safeValue, min, span) ==
  CASE safeValue.kind = "NaN" -> [kind |-> "NaN", num |-> 0, den |-> 1]
    [] safeValue.kind = "Infinity" -> [kind |-> "Infinity", num |-> 0, den |-> 1]
    [] safeValue.kind = "-Infinity" -> [kind |-> "-Infinity", num |-> 0, den |-> 1]
    [] OTHER -> [kind |-> "finite", num |-> safeValue.n - min, den |-> span]

\* variant: the ratio is not clamped
PercentOfUnclamped(ratio) ==
  CASE ratio.kind = "NaN" -> NaNPercent
    [] ratio.kind = "Infinity" -> Fraction(1, 1)
    [] ratio.kind = "-Infinity" -> Fraction(0, 1)
    [] OTHER -> Fraction(ratio.num, ratio.den)

\* Math.min(Math.max(ratio, 0), 1); NaN passes through both
PercentOf(ratio) ==
  CASE ratio.kind = "NaN" -> NaNPercent
    [] ratio.kind = "Infinity" -> Fraction(1, 1)
    [] ratio.kind = "-Infinity" -> Fraction(0, 1)
    [] ratio.num < 0 -> Fraction(0, 1)
    [] ratio.num > ratio.den -> Fraction(1, 1)
    [] OTHER -> Fraction(ratio.num, ratio.den)

\* value === undefined || Number.isNaN(value)
IsEmpty(value) == value.kind = "undefined" \/ NumberIsNaN(value)

\* what GaugeArc({ value, min, max }) computes
GaugeArc(value, min, max) ==
  [percent |-> PercentOf(Ratio(SafeValue(value), min, Span(min, max))),
   isEmpty |-> IsEmpty(value)]

\* a gauge of a render over a window: value={latestReading?.temperature}
RenderGauge ==
  /\ ~view.rendered
  /\ view' = [view EXCEPT
                !.rendered = TRUE,
                !.out = GaugeArc(LatestField(view.props.window, "temperature"),
                                 view.props.min, view.props.max)]
  /\ UNCHANGED page

\* ------------------------------------------------------------- event time
\* an optional date field of a reading: missing, or a text (held as a TLA+
\* string)
Absent == [kind |-> "undefined", text |-> ""]
Text(t) == [kind |-> "string", text |-> t]

\* new Date(text).getTime(), in seconds: the instant an ISO text denotes,
\* NaN for any other text
DateParse(text) ==
  CASE text = "2024-01-01T00:00:00Z" -> [isNaN |-> FALSE, time |-> 1704067200]
    [] text = "2023-01-01T00:00:00Z" -> [isNaN |-> FALSE, time |-> 1672531200]
    [] OTHER -> [isNaN |-> TRUE, time |-> 0]

\* parseDate(input): null for a missing or empty input and for an invalid
\* date
ParseDate(input) ==
  IF input.kind = "undefined" \/ input.text = "" THEN NullDate
  ELSE LET date == DateParse(input.text)
       IN IF date.isNaN THEN NullDate ELSE date.time

\* a ?? b on dates
OrElse(a, b) == IF a = NullDate THEN b ELSE a

\* variant: createdAt is consulted before timestamp
EventTimeCreatedFirst(reading) ==
  OrElse(ParseDate(reading.createdAt),
         OrElse(ParseDate(reading.timestamp), ParseDate(reading.updatedAt)))

\* parseDate(r.timestamp) ?? parseDate(r.createdAt) ?? parseDate(r.updatedAt)
EventTime(reading) ==
  OrElse(ParseDate(reading.timestamp),
         OrElse(ParseDate(reading.createdAt), ParseDate(reading.updatedAt)))

\* the time cell of a table row: rowTimestamp, and the dash shown for none
RenderRow ==
  /\ ~view.rendered
  /\ view' = [view EXCEPT
                !.rendered = TRUE,
                !.out = [rowTimestamp |-> EventTime(view.props.reading),
                         unknown |-> EventTime(view.props.reading) = NullDate]]
  /\ UNCHANGED page

\* ---------------------------------------------------------- specification
Next ==
  \/ Mount
  \/ Unmount
  \/ Advance
  \/ \E t \in timers : TimerTick(t)
  \/ \E s \in InputStrings : ChangeLimitInput(s)
  \/ HandleSubmit
  \/ \E r \in DOMAIN requests : FetchRejected(r)
  \/ \E r \in DOMAIN requests : HttpFailed(r)
  \/ \E r \in DOMAIN requests : JsonRejected(r)
  \/ \E r \in DOMAIN requests : JsonResolved(r)

Spec == Init /\ [][Next]_vars

\* ------------------------------------------------------------- properties
\* a step in which request r fails
FailureStep(r) == FetchRejected(r) \/ HttpFailed(r) \/ JsonRejected(r)

\* limits a commit is checked for, and their decimal texts
Limits == 1..DEFAULT_LIMIT
LimitTexts == [n \in Limits |-> NumberToString(n)]

\* the inputs of section 8: "abc", "0", "-3"
InvalidInputs == { <<"a", "b", "c">>, <<"0">>, <<"-", "3">> }

\* what Array.isArray(...) ? ... : [] is to make of a parsed body
Payload(body) == IF body.isArray THEN body.items ELSE <<>>

\* C1: every failed poll leaves the window and lastUpdated as they were and
\* sets error to a non-empty message.
C1_FailedPollKeepsWindow ==
  [][\A r \in DOMAIN requests :
       FailureStep(r) =>
         /\ readings' = readings
         /\ lastUpdated' = lastUpdated
         /\ error' # NullError
         /\ error' # ""]_vars

\* a fetch failure is on display over a window retrieved earlier
C1_Witness ==
  /\ error \notin {NullError, ValidationMessage}
  /\ readings # <<>>
  /\ lastUpdated # NullDate

\* C2: the window is the initial empty sequence or the whole payload of one
\* successful response, in the server's order; a non-array payload gives the
\* empty window.
C2_WindowIsOnePayload ==
  /\ readings = Payload(lastBody)
  /\ windowLimit = 0 => readings = <<>>

\* a two-reading payload is held in the order it was sent
C2_Witness ==
  /\ windowLimit # 0
  /\ readings = <<2, 1>>

\* C3: after teardown no poll request is issued and no interval timer is
\* left, however much time passes.
C3_NoPollAfterStop ==
  [][/\ phase = "unmounted" => Len(requests') <= Len(requests)
     /\ phase' = "unmounted" => timers' = {}]_vars

\* torn down, and the clock is where the timer was due: the only poll was
\* the one of the mount (a tick's poll would have left an error, a later
\* lastUpdated or a request in flight)
C3_Witness ==
  /\ phase = "unmounted"
  /\ now = POLL_INTERVAL
  /\ requests = <<>>
  /\ error = NullError
  /\ lastUpdated = 0

\* C4: a commit of "abc", "0" or "-3" sets the validation message and leaves
\* the limit, the window, lastUpdated, the timer and the requests as they were.
C4_InvalidCommitRejected ==
  [][(HandleSubmit /\ limitInput \in InvalidInputs) =>
       /\ error' = ValidationMessage
       /\ UNCHANGED <<limit, readings, lastUpdated, timers, interval, requests>>]_vars

\* "0" was committed over a retrieved window
C4_Witness ==
  /\ error = ValidationMessage
  /\ limitInput = <<"0">>
  /\ readings # <<>>
  /\ timers # {}

\* C5: a commit of the text of a positive integer n sets the limit to n and
\* issues a request with limit=n in the same step, at the same clock time.
\* (The handler's request is the first one the step adds.)
C5_ValidCommitPollsNow ==
  [][HandleSubmit =>
       \A n \in Limits :
         limitInput = LimitTexts[n] =>
           /\ limit' = n
           /\ now' = now
           /\ Len(requests') > Len(requests)
           /\ requests'[Len(requests) + 1].limitToUse = n]_vars

\* before the first tick, the requests of a commit of "1" are in flight
C5_Witness ==
  /\ limit = 1
  /\ now < POLL_INTERVAL
  /\ isFetching
  /\ Len(requests) = 2
  /\ \A i \in DOMAIN requests : requests[i].limitToUse = 1

\* C6 as stated: a successful commit leaves the time of the next tick as it
\* was, and the ticks that follow use the new limit.
C6_TimerKeepsSchedule ==
  [][HandleSubmit =>
       \A n \in Limits :
         limitInput = LimitTexts[n] =>
           /\ {t.nextFire : t \in timers'} = {t.nextFire : t \in timers}
           /\ \A t \in timers' : t.limitToUse = n]_vars

\* C6 amended: a commit of the active limit leaves the timer untouched; a
\* commit of another limit replaces it by a timer whose first tick is a full
\* period after the commit; either way the ticks that follow use the new limit.
C6_CommitRestartsTimerOnChange ==
  [][HandleSubmit =>
       \A n \in Limits :
         limitInput = LimitTexts[n] =>
           /\ IF n = limit
              THEN timers' = timers
              ELSE \A t \in timers' : t.nextFire = now + POLL_INTERVAL
           /\ timers' # {}
           /\ \A t \in timers' : t.limitToUse = n /\ t.period = POLL_INTERVAL]_vars

\* a commit half a period after mount moved the next tick off the old schedule
C6_Witness ==
  /\ limit = 1
  /\ \E t \in timers :
       t.limitToUse = 1 /\ t.nextFire = POLL_INTERVAL + POLL_INTERVAL \div 2

\* C7: at most one interval timer is active and it polls with the active
\* limit; a change of the limit leaves exactly one timer, newly started; a
\* request issued by a tick carries the active limit.
C7_OneTimerWithActiveLimit ==
  [][/\ Cardinality(timers') <= 1
     /\ \A t \in timers' : t.limitToUse = limit'
     /\ limit' # limit =>
          /\ Cardinality(timers') = 1
          /\ \A t \in timers' : t.nextFire = now + POLL_INTERVAL
     /\ \A t \in timers :
          TimerTick(t) => requests'[Len(requests')].limitToUse = limit]_vars

\* a limit=1 payload arrived at lastUpdated, so the timer of the change to
\* limit 1 was first due within a period of it: it has ticked since, and a
\* request with limit 1 is in flight
C7_Witness ==
  /\ limit = 1
  /\ windowLimit = 1
  /\ lastUpdated # NullDate
  /\ \E t \in timers : t.nextFire > lastUpdated + POLL_INTERVAL
  /\ \E i \in DOMAIN requests : requests[i].limitToUse = 1

\* C8: a response that arrives after the response of a later-issued request
\* still replaces the window.
C8_StaleResultOverwrites ==
  [][\A r \in DOMAIN requests :
       (requests[r].stale /\ JsonResolved(r)) =>
         /\ readings' = Payload(lastBody')
         /\ lastUpdated' = now
         /\ windowStale']_vars

\* the window holds the payload of an overtaken request
C8_Witness ==
  /\ windowStale
  /\ readings # <<>>
  /\ readings = Payload(lastBody)

\* C9 as stated: the window is never longer than the active limit.
C9_WindowWithinActiveLimit == Len(readings) <= limit

\* C9 amended: the window is never longer than the limit carried by the
\* request whose payload it holds.
C9_WindowWithinRequestLimit ==
  /\ windowLimit = 0 => readings = <<>>
  /\ windowLimit # 0 => Len(readings) <= windowLimit

\* the limit was lowered to 1 under a two-reading window of a limit=20 request
C9_Witness ==
  /\ limit = 1
  /\ windowLimit = DEFAULT_LIMIT
  /\ Len(readings) = 2

\* C10: a failed poll leaves the interval timer as it was, active with the
\* 10-second period and the active limit; a tick issues one request with the
\* active limit and is due again one period later.
C10_FailureKeepsPolling ==
  [][/\ \A r \in DOMAIN requests :
          FailureStep(r) =>
            /\ timers' = timers
            /\ phase = "mounted" =>
                 \E t \in timers' :
                   /\ t.period = POLL_INTERVAL
                   /\ t.limitToUse = limit'
                   /\ t.nextFire >= now
                   /\ t.nextFire <= now + POLL_INTERVAL
     /\ \A t \in timers :
          TimerTick(t) =>
            /\ Len(requests') = Len(requests) + 1
            /\ requests'[Len(requests')].limitToUse = limit
            /\ \E u \in timers' : u.id = t.id /\ u.nextFire = now + POLL_INTERVAL]_vars

\* the timer of the mount has ticked, every poll so far has failed (the one
\* of the mount and the one of the tick among them), and the timer is set
C10_Witness ==
  /\ phase = "mounted"
  /\ limit = DEFAULT_LIMIT
  /\ error \notin {NullError, ValidationMessage}
  /\ lastUpdated = NullDate
  /\ requests = <<>>
  /\ now = POLL_INTERVAL
  /\ \E t \in timers : t.nextFire = 2 * POLL_INTERVAL

\* C11: in every state reached right after a poll completes successfully,
\* error is none, whatever the interleaving of overlapping polls.
C11_SuccessLeavesNoError ==
  [][\A r \in DOMAIN requests : JsonResolved(r) => error' = NullError]_vars

\* C12: a fetch error is removed only by a poll that completes successfully
\* and a validation error only by a valid commit; a timer tick leaves a
\* validation error on display.
C12_ErrorRemovedBySuccessOrValidCommit ==
  [][/\ (error \notin {NullError, ValidationMessage} /\ error' = NullError) =>
          \E r \in DOMAIN requests : JsonResolved(r)
     /\ (error = ValidationMessage /\ error' = NullError) =>
          HandleSubmit /\ limitInput \notin InvalidInputs
     /\ \A t \in timers :
          (error = ValidationMessage /\ TimerTick(t)) =>
            error' = ValidationMessage]_vars

\* C12 amended: a message is removed only by a step that starts a poll (the
\* mount effect, a timer tick, a valid commit), whatever the kind of the
\* message; a completing poll never removes one; every timer tick leaves
\* error none, a validation error included.
C12_ErrorRemovedByPollStart ==
  [][/\ (error # NullError /\ error' = NullError) =>
          Len(requests') > Len(requests)
     /\ \A t \in timers : TimerTick(t) => error' = NullError]_vars

\* the message of an invalid commit is on display and the timer is due: the
\* tick that follows removes it
C12_Witness ==
  /\ phase = "mounted"
  /\ error = ValidationMessage
  /\ limitInput \in InvalidInputs
  /\ Len(requests) < MaxInFlight
  /\ \E t \in timers : now = t.nextFire

\* C13: isFetching is true in every state in which at least one poll request
\* is outstanding and false in every state in which none is.
C13_FetchingIffOutstanding ==
  isFetching <=> (requests # <<>>)

\* C14: the mount issues exactly one request, with the default limit, before
\* any timer exists, and starts one interval timer of period POLL_INTERVAL
\* first due one period later; a tick happens at the timer's due time and
\* leaves the same timer due exactly one period later with the same limit.
C14_MountPollsAndSchedules ==
  [][/\ Mount =>
          /\ requests = <<>> /\ timers = {}
          /\ requests' = <<[limitToUse |-> DEFAULT_LIMIT, stale |-> FALSE]>>
          /\ now' = now
          /\ Cardinality(timers') = 1
          /\ \A t \in timers' :
               /\ t.period = POLL_INTERVAL
               /\ t.limitToUse = DEFAULT_LIMIT
               /\ t.nextFire = now + POLL_INTERVAL
     /\ phase' = "created" => (requests' = <<>> /\ timers' = {})
     /\ \A t \in timers :
          TimerTick(t) =>
            /\ now = t.nextFire
            /\ Len(requests') = Len(requests) + 1
            /\ timers' \ timers =
                 {[id |-> t.id, limitToUse |-> t.limitToUse,
                   period |-> POLL_INTERVAL,
                   nextFire |-> t.nextFire + POLL_INTERVAL]}]_vars

\* one period after the mount, with the limit unchanged and no poll settled,
\* the request of the mount and the request of the first tick are in flight
\* and the timer is due one period later
C14_Witness ==
  /\ now = POLL_INTERVAL
  /\ limit = DEFAULT_LIMIT
  /\ limitInput = NumberToString(DEFAULT_LIMIT)
  /\ lastUpdated = NullDate
  /\ error = NullError
  /\ Len(requests) = 2
  /\ \A i \in DOMAIN requests : requests[i].limitToUse = DEFAULT_LIMIT
  /\ \A t \in timers : t.nextFire = 2 * POLL_INTERVAL

\* C15: lastUpdated is none until a poll has succeeded; it changes only in
\* the step of a successful poll, which sets it to the time of that step and
\* replaces the window by the (coerced) payload; failed polls, commits, ticks
\* and the passing of time leave it as it was.
C15_LastUpdatedOnlyBySuccess ==
  [][/\ windowLimit' = 0 => lastUpdated' = NullDate
     /\ lastUpdated' # lastUpdated =>
          /\ \E r \in DOMAIN requests : JsonResolved(r)
          /\ lastUpdated' = now
          /\ readings' = Payload(lastBody')
     /\ \A r \in DOMAIN requests :
          (Len(requests') < Len(requests) /\ JsonResolved(r)) =>
            /\ lastUpdated' = now
            /\ readings' = Payload(lastBody')]_vars

\* a non-array payload emptied the window and stamped lastUpdated; a later
\* poll failed and left the stamp behind
C15_Witness ==
  /\ lastUpdated # NullDate
  /\ lastUpdated < now
  /\ ~lastBody.isArray
  /\ readings = <<>>
  /\ error \notin {NullError, ValidationMessage}

\* C20: a valid commit of a value other than the active limit issues two
\* requests with the new limit, both in flight after the step, and replaces
\* the interval timer; a valid commit of the active limit issues exactly one
\* request and leaves the interval timer as it was.
C20_CommitIssuesTwoOrOne ==
  [][HandleSubmit =>
       \A n \in Limits :
         limitInput = LimitTexts[n] =>
           IF n # limit
           THEN /\ requests' =
                     requests \o <<[limitToUse |-> n, stale |-> FALSE],
                                   [limitToUse |-> n, stale |-> FALSE]>>
                /\ \A t \in timers' :
                     t.limitToUse = n /\ t.nextFire = now + POLL_INTERVAL
                /\ timers' \cap timers = {}
           ELSE /\ requests' =
                     requests \o <<[limitToUse |-> n, stale |-> FALSE]>>
                /\ timers' = timers
                /\ interval' = interval]_vars

\* half a period after the mount the limit was changed to 1: two requests
\* with limit 1 are in flight and the timer was set anew
C20_Witness ==
  /\ now = POLL_INTERVAL \div 2
  /\ limit = 1
  /\ Len(requests) = 2
  /\ \A i \in DOMAIN requests : requests[i].limitToUse = 1
  /\ \A t \in timers : t.limitToUse = 1 /\ t.nextFire = now + POLL_INTERVAL

\* ------------------------------------------- statistics: specification
\* values of a numeric field: the four that are not finite numbers, -1 and
\* 1 + 1/Resolution
Samples ==
  {Undefined, NaN, PosInfinity, NegInfinity,
   Num(0 - Resolution), Num(Resolution + 1)}
SampleReadings == [temperature : Samples, humidity : Samples]
SampleWindows == SeqsUpTo(SampleReadings, MaxSamples)

InitStats ==
  /\ PageInit
  /\ view \in {[props |-> [window |-> w], rendered |-> FALSE, out |-> <<>>] :
                 w \in SampleWindows}

NextStats == RenderStats

SpecStats == InitStats /\ [][NextStats]_vars

Fields == {"temperature", "humidity"}

\* positions of the window whose field f holds a finite number
FinitePositions(window, f) ==
  {i \in DOMAIN window : window[i][f].kind = "finite"}

RECURSIVE SumAt(_, _, _)
SumAt(window, f, positions) ==
  IF positions = {} THEN 0
  ELSE LET i == CHOOSE j \in positions : TRUE
       IN window[i][f].n + SumAt(window, f, positions \ {i})

StatsOf(f) ==
  IF f = "temperature" THEN view.out.temperatureStats
  ELSE view.out.humidityStats

\* C16: the statistics of a field are null exactly when no reading of the
\* window has a finite value for it; otherwise count is the number of finite
\* values, min and max are the least and the greatest of them, and average
\* times count is their sum; values that are not finite enter none of these.
C16_StatsOverFiniteValues ==
  view.rendered =>
    \A f \in Fields :
      LET window == view.props.window
          finite == FinitePositions(window, f)
          stats == StatsOf(f)
      IN /\ stats.isNull <=> finite = {}
         /\ finite # {} =>
              /\ stats.count = Cardinality(finite)
              /\ \E i \in finite : window[i][f].n = stats.min
              /\ \A i \in finite : stats.min <= window[i][f].n
              /\ \E i \in finite : window[i][f].n = stats.max
              /\ \A i \in finite : stats.max >= window[i][f].n
              /\ stats.average.den > 0
              /\ stats.average.num * stats.count =
                   SumAt(window, f, finite) * stats.average.den

\* a window of two readings: NaN and a finite temperature give statistics
\* over the one finite value, and no finite humidity gives none
C16_Witness ==
  /\ view.rendered
  /\ Len(view.props.window) = 2
  /\ view.props.window[1].temperature = NaN
  /\ view.props.window[2].temperature.kind = "finite"
  /\ view.out.temperatureStats.count = 1
  /\ view.out.humidityStats.isNull

\* ------------------------------------------------ gauge: specification
\* values of the field the gauge shows: the four that are not finite
\* numbers, and the multiples of 1/Resolution from -1/Resolution to MaxTicks
GaugeSamples ==
  {Undefined, NaN, PosInfinity, NegInfinity} \cup {Num(n) : n \in -1..MaxTicks}

\* the window a gauge reads its value from: empty, or one latest reading
GaugeWindows ==
  {<<>>} \cup {<<[temperature |-> v, humidity |-> Undefined]>> : v \in GaugeSamples}

\* display ranges, proper and degenerate
GaugeMins == 0..Resolution
GaugeMaxs == 0..MaxTicks

InitGauge ==
  /\ PageInit
  /\ view \in {[props |-> [window |-> w, min |-> lo, max |-> hi],
                rendered |-> FALSE, out |-> <<>>] :
                 w \in GaugeWindows, lo \in GaugeMins, hi \in GaugeMaxs}

NextGauge == RenderGauge

SpecGauge == InitGauge /\ [][NextGauge]_vars

\* the value the gauge of the render was given
GaugeValue ==
  IF view.props.window = <<>> THEN Undefined
  ELSE view.props.window[1].temperature

\* C17: the gauge is empty for every value that is undefined or not finite
\* (NaN, +Infinity, -Infinity, or missing because the window is empty) and
\* not empty for every finite value.
C17_EmptyIffNotFinite ==
  view.rendered => (view.out.isEmpty <=> GaugeValue.kind # "finite")

\* C18: for a finite value the percent is (value - min)/span clamped to
\* [0,1], with span = max - min when min < max and 1 otherwise; it is within
\* [0,1], 0 for values at or below min and 1 for values at or above max
\* (read for a proper range, min < max, where the two do not collide).
C18_PercentOverClaimedSpan ==
  (view.rendered /\ GaugeValue.kind = "finite") =>
    LET value == GaugeValue.n
        min == view.props.min
        max == view.props.max
        span == IF min < max THEN max - min ELSE Resolution
        percent == view.out.percent
    IN /\ ~percent.isNaN
       /\ percent.num >= 0 /\ percent.num <= percent.den
       /\ value <= min => percent.num = 0
       /\ (min < max /\ value >= max) => percent.num = percent.den
       /\ (value >= min /\ value <= min + span) =>
            percent.num * span = (value - min) * percent.den

\* C18 amended: for a finite value the percent is (value - min)/span clamped
\* to [0,1], with span = max - min when max - min is at least 1 and span = 1
\* otherwise; it is within [0,1], 0 for values at or below min and 1 for
\* values at or above min + span (which is max when max - min is at least 1).
C18_PercentOverFlooredSpan ==
  (view.rendered /\ GaugeValue.kind = "finite") =>
    LET value == GaugeValue.n
        min == view.props.min
        max == view.props.max
        span == IF max - min >= Resolution THEN max - min ELSE Resolution
        percent == view.out.percent
    IN /\ ~percent.isNaN
       /\ percent.den > 0
       /\ percent.num >= 0 /\ percent.num <= percent.den
       /\ value <= min => percent.num = 0
       /\ value >= min + span => percent.num = percent.den
       /\ (value >= min /\ value <= min + span) =>
            percent.num * span = (value - min) * percent.den

\* a range narrower than 1 (0 < max - min < 1) and the value at its upper
\* end: the percent is strictly between 0 and 1
C18_Witness ==
  /\ view.rendered
  /\ view.props.max > view.props.min
  /\ view.props.max - view.props.min < Resolution
  /\ GaugeValue = Num(view.props.max)
  /\ view.out.percent.num > 0
  /\ view.out.percent.num < view.out.percent.den

\* ------------------------------------------- event time: specification
\* what a date field can hold: nothing, the empty text, a text that is no
\* date, and the two dates of section 8
DateInputs ==
  {Absent, Text(""), Text("not a date"),
   Text("2024-01-01T00:00:00Z"), Text("2023-01-01T00:00:00Z")}
DatedReadings ==
  [timestamp : DateInputs, createdAt : DateInputs, updatedAt : DateInputs]

InitTime ==
  /\ PageInit
  /\ view \in {[props |-> [reading |-> r], rendered |-> FALSE, out |-> <<>>] :
                 r \in DatedReadings}

NextTime == RenderRow

SpecTime == InitTime /\ [][NextTime]_vars

DateFields == <<"timestamp", "createdAt", "updatedAt">>

\* the first of the three fields, in priority order, that satisfies Ok; 0
\* when none does
FirstField(reading, Ok(_)) ==
  IF \E i \in 1..3 : Ok(reading[DateFields[i]])
  THEN CHOOSE i \in 1..3 :
         /\ Ok(reading[DateFields[i]])
         /\ \A j \in 1..(i - 1) : ~Ok(reading[DateFields[j]])
  ELSE 0

IsPresent(input) == input.kind # "undefined"
IsValidDate(input) ==
  /\ input.kind = "string"
  /\ input.text # ""
  /\ ~DateParse(input.text).isNaN

\* C19: the event time of a reading is the first field that is present
\* among timestamp, createdAt, updatedAt, in that order (a present timestamp
\* always wins), and is unknown only when all three are absent.
C19_FirstPresentField ==
  view.rendered =>
    LET reading == view.props.reading
        first == FirstField(reading, IsPresent)
    IN /\ view.out.unknown <=> first = 0
       /\ first # 0 =>
            LET date == DateParse(reading[DateFields[first]].text)
            IN ~date.isNaN /\ view.out.rowTimestamp = date.time

\* C19 amended: the event time of a reading is the first field among
\* timestamp, createdAt, updatedAt, in that order, that holds a non-empty
\* text denoting a valid date, and is unknown exactly when none of the three
\* does; a field that is present but empty or not a date is passed over.
C19_FirstValidField ==
  view.rendered =>
    LET reading == view.props.reading
        first == FirstField(reading, IsValidDate)
    IN /\ view.out.unknown <=> first = 0
       /\ first = 0 => view.out.rowTimestamp = NullDate
       /\ first # 0 =>
            view.out.rowTimestamp = DateParse(reading[DateFields[first]].text).time

\* a timestamp that is present but no date is passed over for createdAt
C19_Witness ==
  /\ view.rendered
  /\ view.props.reading.timestamp = Text("not a date")
  /\ view.props.reading.createdAt = Text("2023-01-01T00:00:00Z")
  /\ view.props.reading.updatedAt = Text("2024-01-01T00:00:00Z")
  /\ view.out.rowTimestamp = DateParse("2023-01-01T00:00:00Z").time

====
